---- MODULE Spec2Model ----
(***************************************************************************)
(* Model of the location screen of ai-travel-assistant                     *)
(* (src/app/location.tsx) and of the provider client it calls              *)
(* (src/utils/openai.ts).                                                  *)
(*                                                                         *)
(* The screen is a React component.  Its state (title, loading,            *)
(* chatLoading, error, isTalking, messages) and its two refs               *)
(* (recordingRef, soundRef) are the variables.  Every invocation of an     *)
(* async handler (init, toggleTalk, goBack, the unmount cleanup) is a task *)
(* with a position (pc): one step of the model runs a handler from one     *)
(* await to the next.  A handler reads the React state of the render in    *)
(* which it was created; renders are taken to follow every state change    *)
(* before the next user press.                                             *)
(***************************************************************************)
EXTENDS Integers, Sequences, FiniteSets, TLC

\* ---------------------------------------------------------------- bounds
\* number of user presses (talk/stop and go back together) explored
MaxPresses == 4
\* length of a raw chat reply, in tokens
MaxRawLen == 5
\* length of the text typed into the coordinates field, in characters
MaxTextLen == 5
\* number of user presses explored where termination is checked
MaxLivePresses == 3

\* ---------------------------------------------------------------- values
\* the null of a ref, of a uri and of the error state
null == -1

\* task ids: init is task 0, the k-th press runs as task k, the detached
\* stopAndUnloadSound() of the unmount cleanup is the last task
InitTask == 0
PressTasks == 1..MaxPresses
CleanupTask == MaxPresses + 1
TaskIds == 0..(MaxPresses + 1)

SYSTEM_PROMPT == <<"SYSTEM_PROMPT">>
SystemTurn == [role |-> "system", content |-> SYSTEM_PROMPT]
\* the user turn of the seed: Coordinates: <coords>
UserMsg == [role |-> "user", content |-> <<"Coordinates:", "coords">>]

\* ------------------------------------------------ raw replies as tokens
\* A raw reply is a sequence of tokens: a code fence, the word json, a
\* newline, the text of a JSON object with string fields name and
\* description, the text of a JSON object whose name is not a string, and
\* any other text (not JSON).
Tokens == {"FENCE", "json", "NL", "{name,description}", "{name:1}", "text"}

RECURSIVE SeqsUpTo(_)
SeqsUpTo(n) ==
    IF n = 0 THEN {<<>>}
    ELSE LET shorter == SeqsUpTo(n - 1)
         IN  shorter \cup {Append(s, t) : s \in {x \in shorter : Len(x) = n - 1}, t \in Tokens}

RawReplies == SeqsUpTo(MaxRawLen)

IsSpace(tok) == tok = "NL"

\* String.prototype.trim
RECURSIVE TrimLeft(_)
TrimLeft(s) == IF s # <<>> /\ IsSpace(Head(s)) THEN TrimLeft(Tail(s)) ELSE s

RECURSIVE TrimRight(_)
TrimRight(s) ==
    IF s # <<>> /\ IsSpace(s[Len(s)]) THEN TrimRight(SubSeq(s, 1, Len(s) - 1)) ELSE s

Trim(s) == TrimRight(TrimLeft(s))

\* JSON.parse: the text is one JSON value with optional surrounding
\* whitespace; anything else throws (ok is FALSE)
JsonParse(s) ==
    LET body == Trim(s)
    IN  IF Len(body) # 1 THEN [ok |-> FALSE]
        ELSE IF body[1] = "{name,description}"
             THEN [ok |-> TRUE,
                   name |-> [type |-> "string", val |-> "Paris"],
                   description |-> [type |-> "string", val |-> "The City of Light."]]
        ELSE IF body[1] = "{name:1}"
             THEN [ok |-> TRUE,
                   name |-> [type |-> "number", val |-> "1"],
                   description |-> [type |-> "string", val |-> "x"]]
        ELSE [ok |-> FALSE]

\* j && typeof j.name === string && typeof j.description === string
HasTextFieldsLoose(j) == j.ok /\ j.description.type = "string"
HasTextFields(j) ==
    j.ok /\ j.name.type = "string" /\ j.description.type = "string"

\* the LocationInfo a parse returns; isNull stands for the null result
AsLocationInfoSwapped(j) ==
    [isNull |-> FALSE, name |-> j.description.val, description |-> j.name.val]
AsLocationInfo(j) ==
    [isNull |-> FALSE, name |-> j.name.val, description |-> j.description.val]
NullInfo == [isNull |-> TRUE, name |-> "", description |-> ""]

\* first index k >= from with s[k] a fence, 0 if none
RECURSIVE NextFence(_, _)
NextFence(s, from) ==
    IF from > Len(s) THEN 0
    ELSE IF s[from] = "FENCE" THEN from
    ELSE NextFence(s, from + 1)

\* raw.match(/FENCE(?:json)?NL([any]*?)FENCE/i): the capture group of the
\* leftmost match; found is FALSE when there is no match
RECURSIVE FencedFrom(_, _)
FencedFrom(s, i) ==
    IF i > Len(s) THEN [found |-> FALSE, text |-> <<>>]
    ELSE
      LET body == IF s[i] # "FENCE" THEN 0
                  ELSE IF i + 2 <= Len(s) /\ s[i + 1] = "json" /\ s[i + 2] = "NL" THEN i + 3
                  ELSE IF i + 1 <= Len(s) /\ s[i + 1] = "NL" THEN i + 2
                  ELSE 0
          close == IF body = 0 THEN 0 ELSE NextFence(s, body)
      IN  IF close # 0 THEN [found |-> TRUE, text |-> SubSeq(s, body, close - 1)]
          ELSE FencedFrom(s, i + 1)

FencedBlock(s) == FencedFrom(s, 1)

\* parseStrictJson: direct parse first, then the first fenced block
parseStrictJson(raw) ==
    LET j == JsonParse(raw)
        m == FencedBlock(raw)
    IN  IF HasTextFields(j) THEN AsLocationInfo(j)
        ELSE IF m.found /\ HasTextFields(JsonParse(m.text)) THEN AsLocationInfo(JsonParse(m.text))
        ELSE NullInfo

\* ------------------------------------------------------ provider client
\* A chat response is a non-success status (its body is only quoted in the
\* error message), or a success status with the content of the first
\* choice (empty when absent).
ChatResponses ==
    {[ok |-> FALSE, content |-> <<>>]} \cup [ok : {TRUE}, content : RawReplies]

\* chatCompletion after the fetch returned: the trimmed content, or a throw
chatCompletionResult(resp) ==
    IF ~resp.ok THEN [throw |-> TRUE, message |-> "OpenAI Chat error", text |-> <<>>]
    ELSE IF Trim(resp.content) = <<>> THEN [throw |-> TRUE, message |-> "No content", text |-> <<>>]
    ELSE [throw |-> FALSE, message |-> "", text |-> Trim(resp.content)]

\* what the recording with uri f holds, as the transcription returns it
Said(f) == <<"utterance", ToString(f)>>

\* a transcription response: status class and the text field
SttResponses(f) == [ok : BOOLEAN, text : {<<>>, Said(f), <<"NL">> \o Said(f)}]

\* transcribeAudio after the fetch returned
transcribeAudioResult(resp) ==
    IF ~resp.ok THEN [throw |-> TRUE, text |-> <<>>]
    ELSE IF Trim(resp.text) = <<>> THEN [throw |-> TRUE, text |-> <<>>]
    ELSE [throw |-> FALSE, text |-> Trim(resp.text)]

\* the chat responses explored for the follow-up call of task t
FollowUpResponses(t) == [ok : BOOLEAN, content : {<<>>, <<"NL", "reply", ToString(t)>>}]

\* The kind of a chat response, read off its text: "failed" for a
\* non-success status or an empty content, "usable" when the content is one
\* JSON object with text fields name and description or when its first
\* fenced block (a fence, an optional json, a newline, the block, the next
\* fence) is such an object, "other" otherwise.
IsGoodObject(s) == Trim(s) = <<"{name,description}">>

\* a fenced block opens at i: the block starts at the index returned, 0 if
\* no block opens at i
BlockStart(s, i) ==
    IF i + 1 <= Len(s) /\ s[i] = "FENCE" /\ s[i + 1] = "NL" THEN i + 2
    ELSE IF i + 2 <= Len(s) /\ s[i] = "FENCE" /\ s[i + 1] = "json" /\ s[i + 2] = "NL" THEN i + 3
    ELSE 0

\* a block opens at i and is closed by a later fence
OpensBlock(s, i) ==
    BlockStart(s, i) # 0 /\ \E k \in BlockStart(s, i)..Len(s) : s[k] = "FENCE"

HasGoodFencedBlock(s) ==
    \E i \in 1..Len(s), k \in 1..Len(s) :
        /\ OpensBlock(s, i)
        /\ \A h \in 1..(i - 1) : ~OpensBlock(s, h)
        /\ k >= BlockStart(s, i)
        /\ s[k] = "FENCE"
        /\ \A h \in BlockStart(s, i)..(k - 1) : s[h] # "FENCE"
        /\ IsGoodObject(SubSeq(s, BlockStart(s, i), k - 1))

ReplyKind(resp) ==
    IF ~resp.ok \/ \A i \in 1..Len(resp.content) : IsSpace(resp.content[i]) THEN "failed"
    ELSE IF IsGoodObject(resp.content) \/ HasGoodFencedBlock(resp.content) THEN "usable"
    ELSE "other"

\* ------------------------------------------- coordinates as characters
\* The text of the coordinates field is a sequence of characters: minus,
\* dot, comma, blank, four digits and one other character.
Chars == {"-", ".", ",", " ", "0", "1", "8", "9", "x"}
Digits == {"0", "1", "8", "9"}

\* the texts of at most n characters
TextsUpTo(n) == UNION {[1..k -> Chars] : k \in 0..n}

\* \s of the regular expressions, and what trim() removes
IsBlank(c) == c = " "

RECURSIVE TrimBlanksLeft(_)
TrimBlanksLeft(s) == IF s # <<>> /\ IsBlank(Head(s)) THEN TrimBlanksLeft(Tail(s)) ELSE s

RECURSIVE TrimBlanksRight(_)
TrimBlanksRight(s) ==
    IF s # <<>> /\ IsBlank(s[Len(s)]) THEN TrimBlanksRight(SubSeq(s, 1, Len(s) - 1)) ELSE s

TrimBlanks(s) == TrimBlanksRight(TrimBlanksLeft(s))

AllDigits(s) == \A i \in 1..Len(s) : s[i] \in Digits

\* index of the first occurrence of c in s, 0 when there is none
FirstIndexOf(s, c) ==
    IF \E i \in 1..Len(s) : s[i] = c
    THEN CHOOSE i \in 1..Len(s) : s[i] = c /\ \A k \in 1..(i - 1) : s[k] # c
    ELSE 0

\* a candidate number cut into sign, integer digits and fraction digits
NumberParts(s) ==
    LET neg == s # <<>> /\ s[1] = "-"
        body == IF neg THEN Tail(s) ELSE s
        dot == FirstIndexOf(body, ".")
    IN  [neg |-> neg,
         hasDot |-> dot # 0,
         int |-> IF dot = 0 THEN body ELSE SubSeq(body, 1, dot - 1),
         frac |-> IF dot = 0 THEN <<>> ELSE SubSeq(body, dot + 1, Len(body))]

\* \d{1,3}
IntDigitsOk(p) == Len(p.int) \in 1..3 /\ AllDigits(p.int)
\* \.\d+
FractionOk(p) == p.hasDot /\ p.frac # <<>> /\ AllDigits(p.frac)

\* index.tsx: -?\d{1,3}(?:\.\d+)?
MatchesNumber(s) ==
    LET p == NumberParts(s)
    IN  IntDigitsOk(p) /\ (p.hasDot => FractionOk(p))

\* part_000: -?\d{1,3}\.\d+|\d{1,3}
MatchesNumberApp(s) ==
    LET p == NumberParts(s)
    IN  \/ IntDigitsOk(p) /\ FractionOk(p)
        \/ ~p.neg /\ ~p.hasDot /\ IntDigitsOk(p)

DigitValue(c) == IF c = "0" THEN 0 ELSE IF c = "1" THEN 1 ELSE IF c = "8" THEN 8 ELSE 9

RECURSIVE DigitsValue(_)
DigitsValue(s) ==
    IF s = <<>> THEN 0 ELSE 10 * DigitsValue(SubSeq(s, 1, Len(s) - 1)) + DigitValue(s[Len(s)])

RECURSIVE DropTrailingZeros(_)
DropTrailingZeros(s) ==
    IF s # <<>> /\ s[Len(s)] = "0" THEN DropTrailingZeros(SubSeq(s, 1, Len(s) - 1)) ELSE s

\* Number(text) of a matched number: the sign, the integer value and the
\* fraction digits without trailing zeros (no fraction digits: an integer)
ToNumber(s) ==
    LET p == NumberParts(s)
    IN  [neg |-> p.neg, int |-> DigitsValue(p.int), frac |-> DropTrailingZeros(p.frac)]

\* x < -bound || x > bound
OutOfRange(x, bound) == x.int > bound \/ (x.int = bound /\ x.frac # <<>>)

NoCoordinates == [isNull |-> TRUE, lat |-> ToNumber(<<>>), lon |-> ToNumber(<<>>)]

\* the number pattern of index.tsx or the one of part_000
MatchesPattern(pattern, s) ==
    IF pattern = "index.tsx" THEN MatchesNumber(s) ELSE MatchesNumberApp(s)

\* the body shared by the two parseCoordinates: trim, match
\* ^\s*(number)\s*,\s*(number)\s*$ with the number pattern given, convert
\* the two groups, test the ranges
ParseWith(pattern, text) ==
    LET trimmed == TrimBlanks(text)
        comma == FirstIndexOf(trimmed, ",")
        first == TrimBlanks(SubSeq(trimmed, 1, comma - 1))
        second == TrimBlanks(SubSeq(trimmed, comma + 1, Len(trimmed)))
    IN  IF comma = 0 \/ ~MatchesPattern(pattern, first) \/ ~MatchesPattern(pattern, second)
        THEN NoCoordinates
        ELSE LET lat == ToNumber(first)
                 lon == ToNumber(second)
             IN  IF OutOfRange(lat, 90) \/ OutOfRange(lon, 180) THEN NoCoordinates
                 ELSE [isNull |-> FALSE, lat |-> lat, lon |-> lon]

\* parseCoordinates of src/app/index.tsx
parseCoordinates(text) == ParseWith("index.tsx", text)

\* parseCoordinates of the older single-screen App (src/unnamed/part_000)
parseCoordinatesApp(text) == ParseWith("part_000", text)

\* ----------------------------------------------------------------- state
VARIABLES
    coords,        \* the route parameter coords is present
    hasKey,        \* extra.openaiApiKey is configured
    screen,        \* "mounted", "leaving" (router.back() was called), "unmounted"
    title, loading, chatLoading, error, isTalking, messages,   \* useState
    recordingRef,  \* recordingRef.current: a recording id or null
    soundRef,      \* soundRef.current: a sound id or null
    recs,          \* recordings started and not yet stopped and unloaded
    files,         \* recording files that exist (file f belongs to recording f)
    sounds,        \* sounds created and not yet unloaded
    tasks,         \* the handler invocations and where each one stands
    presses,       \* number of user presses so far
    cleanupRec,    \* recording whose stop the unmount cleanup left in flight
    seedReply      \* what the chat call of init returned: "none" before it
                   \* returns, then "failed", "usable" or "other"

\* the screens in front of the location screen
VARIABLES
    inputValue,    \* text of the coordinates field
    homeParsed,    \* what parseCoordinates gave the last handleSubmit of the
                   \* home screen: <<>> before any submit, else <<result>>
    appParsed      \* the same for handleSubmit of the older single-screen App

homeVars == <<inputValue, homeParsed, appParsed>>

\* one call of a function of the provider client, seen on its own
VARIABLES
    clientCall,      \* the call and what it finds: module, function,
                     \* configured keys, whether the audio file exists
    clientPc,        \* "idle", "info", "fetch", "write", "done"
    clientRequests,  \* network requests issued by the call
    clientResult     \* how the call ended

clientVars == <<clientCall, clientPc, clientRequests, clientResult>>
\* everything that is not state of the location screen
outside == <<homeVars, clientVars>>

NoCall == [module |-> "none", op |-> "none", openaiKey |-> FALSE, geminiKey |-> FALSE,
           fileExists |-> FALSE]
NoResult == [threw |-> FALSE, error |-> "", text |-> <<>>]

\* no call of the provider client is looked at
ClientIdle ==
    /\ clientCall = NoCall
    /\ clientPc = "idle"
    /\ clientRequests = 0
    /\ clientResult = NoResult

\* nothing was typed or submitted on the home screens
HomeIdle ==
    /\ inputValue = <<>>
    /\ homeParsed = <<>>
    /\ appParsed = <<>>

reactState == <<title, loading, chatLoading, error, isTalking, messages>>
refs == <<recordingRef, soundRef>>
platform == <<recs, files, sounds, cleanupRec>>
vars == <<coords, hasKey, screen, title, loading, chatLoading, error, isTalking,
          messages, recordingRef, soundRef, recs, files, sounds, tasks, presses,
          cleanupRec, seedReply, inputValue, homeParsed, appParsed,
          clientCall, clientPc, clientRequests, clientResult>>

NoError == "null"

\* an invocation: kind of handler, position, the recording stopRecording
\* called stopAndUnloadAsync on, the sound unloadAsync was called on, the
\* uri stopRecording returned, the messages array the invocation works on
\* (the closure value, then nextMessages), how the try block ended, and how
\* the deleteAsync of the finally block ended.  arg is the argument of the
\* ttsToMp3 or playMp3 call the invocation is in (empty otherwise).
Task(kind, pc, rec, snd, uri, msgs, res, del) ==
    [kind |-> kind, pc |-> pc, rec |-> rec, snd |-> snd, uri |-> uri,
     msgs |-> msgs, res |-> res, del |-> del, arg |-> <<>>]

\* the file ttsToMp3 writes in the call made by task t: speech-<now>.mp3
Mp3Path(t) == <<"speech.mp3", ToString(t)>>

NoTask == Task("none", "idle", null, null, null, <<>>, "none", "na")
Finished(kind, res, uri, del) == Task(kind, "done", null, null, uri, <<>>, res, del)

\* a press that ran no handler code: the button was disabled, or the
\* handler returned at its guard
Rejected == Finished("press", "rejected", null, "na")

\* a state setter of a component that was unmounted has no effect
SetState(cur, val) == IF screen # "unmounted" THEN val ELSE cur

Init ==
    /\ coords \in BOOLEAN
    /\ hasKey \in BOOLEAN
    /\ screen = "mounted"
    /\ title = ""
    /\ loading = TRUE
    /\ chatLoading = FALSE
    /\ error = NoError
    /\ isTalking = FALSE
    /\ messages = <<SystemTurn>>
    /\ recordingRef = null
    /\ soundRef = null
    /\ recs = {}
    /\ files = {}
    /\ sounds = {}
    /\ tasks = [t \in TaskIds |-> IF t = InitTask THEN Task("init", "idle", null, null, null, <<>>, "none", "na")
                                  ELSE NoTask]
    /\ presses = 0
    /\ cleanupRec = null
    /\ seedReply = "none"
    /\ HomeIdle
    /\ ClientIdle

\* ------------------------------------------------------------- helpers
SetTask(t, r) == tasks' = [tasks EXCEPT ![t] = r]

\* catch of init: setError(e?.message || 'Failed to load')
SeedCatch(e, cur) == e

\* catch of toggleTalk: the error is swallowed, the error state stays
FollowUpCatchSurfaced(e, cur) == e
FollowUpCatch(e, cur) == cur

\* FileSystem.deleteAsync(uri, { idempotent: true }), which may throw
DeleteAsyncNoop(fs, uri, ok) == fs
DeleteAsync(fs, uri, ok) == IF ok THEN fs \ {uri} ELSE fs

\* sound.unloadAsync(), which may throw and then leaves the sound loaded
UnloadAsync(ss, snd, ok) == IF ok THEN ss \ {snd} ELSE ss

\* disabled props of the two buttons and the guards of their handlers
TalkDisabled == loading \/ chatLoading
BackDisabled == isTalking \/ loading \/ chatLoading
GoBackGuard == isTalking

\* finally of init and of toggleTalk: setLoading(false), setChatLoading(false)
FinallySkipped(flag) == flag
Finally(flag) == SetState(flag, FALSE)

\* The try block of task t ends: res is "ok" or "fail", e the message of
\* the error thrown.  init: catch sets the error, finally clears loading.
\* toggleTalk: catch swallows, finally clears chatLoading and calls
\* deleteAsync on the recording file.
TryEnds(t, res, e) ==
    IF tasks[t].kind = "init"
    THEN /\ error' = IF res = "fail" THEN SetState(error, SeedCatch(e, error)) ELSE error
         /\ loading' = Finally(loading)
         /\ SetTask(t, Finished("init", res, null, "na"))
         /\ UNCHANGED chatLoading
    ELSE /\ error' = IF res = "fail" THEN SetState(error, FollowUpCatch(e, error)) ELSE error
         /\ chatLoading' = Finally(chatLoading)
         /\ SetTask(t, Task("talk", "del", null, null, tasks[t].uri, <<>>, res, "na"))
         /\ UNCHANGED loading

\* ------------------------------------------------------------ seed turn
\* the mount effect runs init() up to its first await
InitStart ==
    /\ tasks[InitTask].pc = "idle"
    /\ IF ~coords
       THEN /\ error' = "Missing coordinates"
            /\ loading' = FALSE
            /\ SetTask(InitTask, Finished("init", "fail", null, "na"))
       ELSE IF ~hasKey
       THEN \* getApiKey() throws while the request is built
            /\ error' = SeedCatch("Missing OPENAI_API_KEY", NoError)
            /\ loading' = FALSE
            /\ SetTask(InitTask, Finished("init", "fail", null, "na"))
       ELSE /\ error' = NoError
            /\ loading' = TRUE
            /\ SetTask(InitTask, [tasks[InitTask] EXCEPT !.pc = "chat"])
    /\ UNCHANGED <<outside, seedReply, coords, hasKey, screen, title, chatLoading, isTalking, messages,
                   recordingRef, soundRef, recs, files, sounds, presses, cleanupRec>>

\* what init makes of a chat response: the result of chatCompletion, the
\* result of parseStrictJson on its text, and the kind of the response
SeedOutcome(resp) ==
    [r |-> chatCompletionResult(resp),
     info |-> parseStrictJson(chatCompletionResult(resp).text),
     kind |-> ReplyKind(resp)]

\* the outcomes over all chat responses
SeedOutcomes == {SeedOutcome(resp) : resp \in ChatResponses}

\* the chat call of init returns: parse, set the title, seed the transcript
InitChatReturn ==
    /\ tasks[InitTask].pc = "chat"
    /\ \E outcome \in SeedOutcomes :
         LET r == outcome.r
             info == outcome.info
         IN  /\ seedReply' = outcome.kind
             /\ IF r.throw
                THEN /\ TryEnds(InitTask, "fail", r.message)
                     /\ UNCHANGED <<title, messages>>
                ELSE IF info.isNull
                THEN /\ TryEnds(InitTask, "fail", "Failed to parse location JSON")
                     /\ UNCHANGED <<title, messages>>
                ELSE /\ title' = SetState(title, info.name)
                     /\ messages' = SetState(messages,
                           <<SystemTurn, UserMsg, [role |-> "assistant", content |-> <<info.description>>]>>)
                     /\ SetTask(InitTask, [tasks[InitTask] EXCEPT !.pc = "tts",
                                                                  !.arg = <<info.description>>])
                     /\ UNCHANGED <<error, loading, chatLoading>>
    /\ UNCHANGED <<outside, coords, hasKey, screen, isTalking, recordingRef, soundRef, recs,
                   files, sounds, presses, cleanupRec>>

\* ------------------------------------------------- synthesis and playback
\* ttsToMp3 returns to init or to toggleTalk; on success playMp3 starts
\* with stopAndUnloadSound
TtsReturn(t) ==
    /\ tasks[t].pc = "tts"
    /\ \E ok \in BOOLEAN :
         IF ok
         THEN /\ SetTask(t, [tasks[t] EXCEPT !.pc = IF soundRef = null THEN "pcreate" ELSE "pstop",
                                             !.arg = Mp3Path(t)])
              /\ UNCHANGED <<error, loading, chatLoading>>
         ELSE TryEnds(t, "fail", "OpenAI TTS error")
    /\ UNCHANGED <<outside, seedReply, coords, hasKey, screen, title, isTalking, messages, recordingRef,
                   soundRef, recs, files, sounds, presses, cleanupRec>>

\* stopAndUnloadSound has stopped, unloaded and dropped the sound: playMp3
\* goes on to create the new sound, goBack calls router.back(), the
\* cleanup is done
Released(t) ==
    IF tasks[t].kind \in {"init", "talk"}
    THEN /\ SetTask(t, [tasks[t] EXCEPT !.pc = "pcreate", !.snd = null])
         /\ UNCHANGED screen
    ELSE /\ SetTask(t, Finished(tasks[t].kind, "ok", null, "na"))
         /\ screen' = IF tasks[t].kind = "back" /\ screen = "mounted" THEN "leaving" ELSE screen

\* stopAsync returned or threw; unloadAsync is called on soundRef.current
PlayStopReturn(t) ==
    /\ tasks[t].pc = "pstop"
    /\ IF soundRef = null
       THEN \* reading soundRef.current.unloadAsync throws, the catch swallows
            /\ Released(t)
       ELSE /\ SetTask(t, [tasks[t] EXCEPT !.pc = "punload", !.snd = soundRef])
            /\ UNCHANGED screen
    /\ UNCHANGED <<outside, seedReply, coords, hasKey, title, loading, chatLoading, error, isTalking,
                   messages, recordingRef, soundRef, recs, files, sounds, presses,
                   cleanupRec>>

\* unloadAsync returned or threw; soundRef.current = null
PlayUnloadReturn(t) ==
    /\ tasks[t].pc = "punload"
    /\ \E ok \in BOOLEAN : sounds' = UnloadAsync(sounds, tasks[t].snd, ok)
    /\ soundRef' = null
    /\ Released(t)
    /\ UNCHANGED <<outside, seedReply, coords, hasKey, title, loading, chatLoading, error, isTalking,
                   messages, recordingRef, recs, files, presses, cleanupRec>>

\* setAudioModeAsync and Sound.createAsync returned: the new sound plays
\* and is held, or one of them threw
PlayCreateReturn(t) ==
    /\ tasks[t].pc = "pcreate"
    /\ \E ok \in BOOLEAN :
         IF ok
         THEN /\ sounds' = sounds \cup {t}
              /\ soundRef' = t
              /\ TryEnds(t, "ok", "")
         ELSE /\ UNCHANGED <<sounds, soundRef>>
              /\ TryEnds(t, "fail", "playback failed")
    /\ UNCHANGED <<outside, seedReply, coords, hasKey, screen, title, isTalking, messages, recordingRef,
                   recs, files, presses, cleanupRec>>

\* ------------------------------------------------------ follow-up turns
\* a press on the Talk/Stop button: toggleTalk up to its first await
TalkPress ==
    /\ screen = "mounted"
    /\ tasks[InitTask].pc # "idle"
    /\ presses < MaxPresses
    /\ presses' = presses + 1
    /\ LET t == presses + 1
       IN  IF TalkDisabled
           THEN /\ SetTask(t, Rejected)
                /\ UNCHANGED isTalking
           ELSE IF ~isTalking
           THEN \* startRecording: setIsTalking(true), then the awaits
                /\ isTalking' = TRUE
                /\ SetTask(t, Task("talk", "start", null, null, null, <<>>, "none", "na"))
           ELSE \* setIsTalking(false), stopRecording
                /\ isTalking' = FALSE
                /\ IF recordingRef = null
                   THEN SetTask(t, Finished("talk", "none", null, "na"))
                   ELSE SetTask(t, Task("talk", "stop", recordingRef, null, null, messages, "none", "na"))
    /\ UNCHANGED <<outside, seedReply, coords, hasKey, screen, title, loading, chatLoading, error, messages,
                   recordingRef, soundRef, recs, files, sounds, cleanupRec>>

\* requestPermissionsAsync, setAudioModeAsync, prepareToRecordAsync and
\* startAsync all returned (the recording runs and is held), or one threw
StartReturn(t) ==
    /\ tasks[t].pc = "start"
    /\ \E ok \in BOOLEAN :
         IF ok
         THEN /\ recs' = recs \cup {t}
              /\ files' = files \cup {t}
              /\ recordingRef' = t
              /\ UNCHANGED isTalking
         ELSE /\ isTalking' = SetState(isTalking, FALSE)
              /\ UNCHANGED <<recs, files, recordingRef>>
    /\ SetTask(t, Finished("talk", "none", null, "na"))
    /\ UNCHANGED <<outside, seedReply, coords, hasKey, screen, title, loading, chatLoading, error, messages,
                   soundRef, sounds, presses, cleanupRec>>

\* stopAndUnloadAsync of stopRecording returned or threw; on return the
\* uri is read from recordingRef.current as it is now
StopReturn(t) ==
    /\ tasks[t].pc = "stop"
    /\ \E ok \in BOOLEAN :
         IF ok /\ recordingRef # null
         THEN /\ recs' = recs \ {tasks[t].rec}
              /\ chatLoading' = SetState(chatLoading, TRUE)
              /\ SetTask(t, [tasks[t] EXCEPT !.pc = "info", !.uri = recordingRef])
         ELSE \* the catch of stopRecording: null is returned, toggleTalk returns
              /\ recs' = IF ok THEN recs \ {tasks[t].rec} ELSE recs
              /\ SetTask(t, Finished("talk", "none", null, "na"))
              /\ UNCHANGED chatLoading
    /\ recordingRef' = null
    /\ UNCHANGED <<outside, seedReply, coords, hasKey, screen, title, loading, error, isTalking, messages,
                   soundRef, files, sounds, presses, cleanupRec>>

\* getInfoAsync of transcribeAudio returned: the file must exist and the
\* key must be configured before the request is sent
InfoReturn(t) ==
    /\ tasks[t].pc = "info"
    /\ IF tasks[t].uri \notin files \/ ~hasKey
       THEN /\ TryEnds(t, "fail", "transcribeAudio threw")
       ELSE /\ SetTask(t, [tasks[t] EXCEPT !.pc = "stt", !.rec = null])
            /\ UNCHANGED <<error, loading, chatLoading>>
    /\ UNCHANGED <<outside, seedReply, coords, hasKey, screen, title, isTalking, messages, recordingRef,
                   soundRef, recs, files, sounds, presses, cleanupRec>>

\* the transcription returned: the user turn is appended to the messages
\* of the closure and the chat call is made with the result
SttReturn(t) ==
    /\ tasks[t].pc = "stt"
    /\ \E resp \in SttResponses(tasks[t].uri) :
         LET r == transcribeAudioResult(resp)
             nextMessages == Append(tasks[t].msgs, [role |-> "user", content |-> r.text])
         IN  IF r.throw
             THEN /\ TryEnds(t, "fail", "OpenAI STT error")
                  /\ UNCHANGED messages
             ELSE /\ messages' = SetState(messages, nextMessages)
                  /\ SetTask(t, [tasks[t] EXCEPT !.pc = "chat", !.msgs = nextMessages])
                  /\ UNCHANGED <<error, loading, chatLoading>>
    /\ UNCHANGED <<outside, seedReply, coords, hasKey, screen, title, isTalking, recordingRef, soundRef,
                   recs, files, sounds, presses, cleanupRec>>

\* the chat call of toggleTalk returned: the assistant turn is appended
TalkChatReturn(t) ==
    /\ tasks[t].kind = "talk"
    /\ tasks[t].pc = "chat"
    /\ \E resp \in FollowUpResponses(t) :
         LET r == chatCompletionResult(resp)
             updated == Append(tasks[t].msgs, [role |-> "assistant", content |-> r.text])
         IN  IF r.throw
             THEN /\ TryEnds(t, "fail", r.message)
                  /\ UNCHANGED messages
             ELSE /\ messages' = SetState(messages, updated)
                  /\ SetTask(t, [tasks[t] EXCEPT !.pc = "tts", !.msgs = <<>>, !.arg = r.text])
                  /\ UNCHANGED <<error, loading, chatLoading>>
    /\ UNCHANGED <<outside, seedReply, coords, hasKey, screen, title, isTalking, recordingRef, soundRef,
                   recs, files, sounds, presses, cleanupRec>>

\* deleteAsync of the finally block returned or threw (swallowed)
DeleteReturn(t) ==
    /\ tasks[t].pc = "del"
    /\ \E ok \in BOOLEAN :
         /\ files' = DeleteAsync(files, tasks[t].uri, ok)
         /\ SetTask(t, Finished("talk", tasks[t].res, tasks[t].uri, IF ok THEN "ok" ELSE "failed"))
    /\ UNCHANGED <<outside, seedReply, coords, hasKey, screen, title, loading, chatLoading, error, isTalking,
                   messages, recordingRef, soundRef, recs, sounds, presses, cleanupRec>>

\* ------------------------------------------------- leaving the screen
\* a press on Go back: goBack up to its first await
BackPress ==
    /\ screen = "mounted"
    /\ tasks[InitTask].pc # "idle"
    /\ presses < MaxPresses
    /\ presses' = presses + 1
    /\ LET t == presses + 1
       IN  IF BackDisabled \/ GoBackGuard
           THEN /\ SetTask(t, Rejected)
                /\ UNCHANGED screen
           ELSE IF soundRef = null
           THEN \* nothing to release: router.back()
                /\ SetTask(t, Finished("back", "ok", null, "na"))
                /\ screen' = "leaving"
           ELSE /\ SetTask(t, Task("back", "pstop", null, null, null, <<>>, "none", "na"))
                /\ UNCHANGED screen
    /\ UNCHANGED <<outside, seedReply, coords, hasKey, title, loading, chatLoading, error, isTalking, messages,
                   recordingRef, soundRef, recs, files, sounds, cleanupRec>>

\* the navigator removes the screen: the cleanup of the effect starts
\* stopAndUnloadSound() and stopAndUnloadAsync() without awaiting them
Unmount ==
    /\ screen = "leaving"
    /\ screen' = "unmounted"
    /\ IF soundRef # null
       THEN SetTask(CleanupTask, Task("cleanup", "pstop", null, null, null, <<>>, "none", "na"))
       ELSE UNCHANGED tasks
    /\ cleanupRec' = recordingRef
    /\ recordingRef' = null
    /\ UNCHANGED <<outside, seedReply, coords, hasKey, title, loading, chatLoading, error, isTalking, messages,
                   soundRef, recs, files, sounds, presses>>

\* the stopAndUnloadAsync the cleanup started returned or threw
CleanupRecReturn ==
    /\ cleanupRec # null
    /\ \E ok \in BOOLEAN : recs' = IF ok THEN recs \ {cleanupRec} ELSE recs
    /\ cleanupRec' = null
    /\ UNCHANGED <<outside, seedReply, coords, hasKey, screen, title, loading, chatLoading, error, isTalking,
                   messages, recordingRef, soundRef, files, sounds, tasks, presses>>

\* ---------------------------------------------------------- specification
Next ==
    \/ InitStart
    \/ InitChatReturn
    \/ TalkPress
    \/ BackPress
    \/ Unmount
    \/ CleanupRecReturn
    \/ \E t \in TaskIds :
         \/ TtsReturn(t)
         \/ PlayStopReturn(t)
         \/ PlayUnloadReturn(t)
         \/ PlayCreateReturn(t)
         \/ StartReturn(t)
         \/ StopReturn(t)
         \/ InfoReturn(t)
         \/ SttReturn(t)
         \/ TalkChatReturn(t)
         \/ DeleteReturn(t)

Spec == Init /\ [][Next]_vars

\* some awaited call of some invocation returns or throws
CallReturns ==
    \/ InitStart
    \/ InitChatReturn
    \/ CleanupRecReturn
    \/ \E t \in TaskIds :
         \/ TtsReturn(t)
         \/ PlayStopReturn(t)
         \/ PlayUnloadReturn(t)
         \/ PlayCreateReturn(t)
         \/ StartReturn(t)
         \/ StopReturn(t)
         \/ InfoReturn(t)
         \/ SttReturn(t)
         \/ TalkChatReturn(t)
         \/ DeleteReturn(t)

\* the presses, up to the number explored for termination
LiveTalkPress == presses < MaxLivePresses /\ TalkPress
LiveBackPress == presses < MaxLivePresses /\ BackPress

LiveNext ==
    \/ LiveTalkPress
    \/ LiveBackPress
    \/ Unmount
    \/ CallReturns

\* every external call eventually returns or fails: as long as a call is
\* outstanding, some outstanding call returns.  Presses are not forced.
LiveSpec == Init /\ [][LiveNext]_vars /\ WF_vars(CallReturns)

\* ------------------------------------------------------- the home screens
\* the location screen as it is before it is opened
LocationClosed ==
    /\ coords = FALSE
    /\ hasKey = FALSE
    /\ screen = "mounted"
    /\ title = ""
    /\ loading = TRUE
    /\ chatLoading = FALSE
    /\ error = NoError
    /\ isTalking = FALSE
    /\ messages = <<SystemTurn>>
    /\ recordingRef = null
    /\ soundRef = null
    /\ recs = {}
    /\ files = {}
    /\ sounds = {}
    /\ tasks = [t \in TaskIds |-> NoTask]
    /\ presses = 0
    /\ cleanupRec = null
    /\ seedReply = "none"

locationVars == <<coords, hasKey, screen, title, loading, chatLoading, error, isTalking,
                  messages, recordingRef, soundRef, recs, files, sounds, tasks, presses,
                  cleanupRec, seedReply>>

\* some text was typed into the coordinates field
HomeInit ==
    /\ LocationClosed
    /\ inputValue \in TextsUpTo(MaxTextLen)
    /\ homeParsed = <<>>
    /\ appParsed = <<>>
    /\ ClientIdle

\* handleSubmit of the home screen (index.tsx): parseCoordinates(inputValue)
HomeSubmit ==
    /\ homeParsed' = <<parseCoordinates(inputValue)>>
    /\ UNCHANGED <<inputValue, appParsed, locationVars, clientVars>>

\* handleSubmit of the older App (part_000): parseCoordinates(inputValue)
AppSubmit ==
    /\ appParsed' = <<parseCoordinatesApp(inputValue)>>
    /\ UNCHANGED <<inputValue, homeParsed, locationVars, clientVars>>

HomeNext == HomeSubmit \/ AppSubmit

HomeSpec == HomeInit /\ [][HomeNext]_vars

\* ------------------------------------------- the provider client alone
ClientModules == {"openai.ts", "part_001"}
ClientOps == {"chatCompletion", "ttsToMp3", "transcribeAudio"}

\* a call of one of the three functions of one of the two client modules,
\* with the keys configured or not and the audio file present or not
ClientInit ==
    /\ LocationClosed
    /\ HomeIdle
    /\ clientCall \in [module : ClientModules, op : ClientOps, openaiKey : BOOLEAN,
                       geminiKey : BOOLEAN, fileExists : BOOLEAN]
    /\ clientPc = "idle"
    /\ clientRequests = 0
    /\ clientResult = NoResult

Threw(e) == [threw |-> TRUE, error |-> e, text |-> <<>>]
Returned(text) == [threw |-> FALSE, error |-> "", text |-> text]

\* chat of part_001 goes to Gemini, everything else to OpenAI
UsesGemini(call) == call.module = "part_001" /\ call.op = "chatCompletion"

\* getApiKey / getOpenAIApiKey / getGeminiApiKey: the key, or the throw
KeyConfigured(call) == IF UsesGemini(call) THEN call.geminiKey ELSE call.openaiKey
MissingKeyError(call) ==
    IF UsesGemini(call) THEN "Missing GEMINI_API_KEY" ELSE "Missing OPENAI_API_KEY"

\* the key is read while the request is built: a missing key throws before
\* fetch (or sendMessage) is called, else the request is issued
ClientSendUnchecked ==
    /\ clientRequests' = clientRequests + 1
    /\ clientPc' = "fetch"
    /\ UNCHANGED clientResult
ClientSend ==
    IF ~KeyConfigured(clientCall)
    THEN /\ clientResult' = Threw(MissingKeyError(clientCall))
         /\ clientPc' = "done"
         /\ UNCHANGED clientRequests
    ELSE /\ clientRequests' = clientRequests + 1
         /\ clientPc' = "fetch"
         /\ UNCHANGED clientResult

\* the function runs up to its first await
ClientStart ==
    /\ clientPc = "idle"
    /\ clientCall # NoCall
    /\ IF clientCall.op = "transcribeAudio"
       THEN \* await FileSystem.getInfoAsync(fileUri) comes first
            /\ clientPc' = "info"
            /\ UNCHANGED <<clientRequests, clientResult>>
       ELSE ClientSend
    /\ UNCHANGED <<clientCall, locationVars, homeVars>>

\* getInfoAsync of transcribeAudio returned or threw
ClientInfoReturn ==
    /\ clientPc = "info"
    /\ \E ok \in BOOLEAN :
         IF ~ok
         THEN /\ clientResult' = Threw("getInfoAsync failed")
              /\ clientPc' = "done"
              /\ UNCHANGED clientRequests
         ELSE IF ~clientCall.fileExists
         THEN /\ clientResult' = Threw("Audio file does not exist")
              /\ clientPc' = "done"
              /\ UNCHANGED clientRequests
         ELSE ClientSend
    /\ UNCHANGED <<clientCall, locationVars, homeVars>>

\* chatCompletion of part_001 after sendMessage: every throw of the try
\* block is wrapped, an empty text throws, the text is trimmed on return
geminiChatResult(resp) ==
    IF ~resp.ok \/ resp.content = <<>> THEN Threw("Gemini Chat error")
    ELSE Returned(Trim(resp.content))

\* the request returned (or the network failed)
ClientFetchReturn ==
    /\ clientPc = "fetch"
    /\ IF clientCall.op = "chatCompletion"
       THEN /\ \E resp \in FollowUpResponses(0) :
                 IF UsesGemini(clientCall)
                 THEN clientResult' = geminiChatResult(resp)
                 ELSE LET r == chatCompletionResult(resp)
                      IN  clientResult' = IF r.throw THEN Threw(r.message) ELSE Returned(r.text)
            /\ clientPc' = "done"
       ELSE IF clientCall.op = "transcribeAudio"
       THEN /\ \E resp \in SttResponses(0) :
                 LET r == transcribeAudioResult(resp)
                 IN  clientResult' = IF r.throw THEN Threw("OpenAI STT error or No transcript")
                                     ELSE Returned(r.text)
            /\ clientPc' = "done"
       ELSE \E ok \in BOOLEAN :
                IF ok
                THEN clientPc' = "write" /\ UNCHANGED clientResult
                ELSE clientPc' = "done" /\ clientResult' = Threw("OpenAI TTS error")
    /\ UNCHANGED <<clientCall, clientRequests, locationVars, homeVars>>

\* writeAsStringAsync of ttsToMp3 returned or threw
ClientWriteReturn ==
    /\ clientPc = "write"
    /\ \E ok \in BOOLEAN :
         clientResult' = IF ok THEN Returned(<<"speech.mp3">>) ELSE Threw("writeAsStringAsync failed")
    /\ clientPc' = "done"
    /\ UNCHANGED <<clientCall, clientRequests, locationVars, homeVars>>

ClientNext == ClientStart \/ ClientInfoReturn \/ ClientFetchReturn \/ ClientWriteReturn

ClientSpec == ClientInit /\ [][ClientNext]_vars

\* ------------------------------------------------------------ properties
\* init returns in this step, its try block having thrown
InitFinishes == tasks[InitTask].pc # "done" /\ tasks'[InitTask].pc = "done"

InFlightPcs == {"start", "stop", "info", "stt", "chat", "tts", "pstop", "punload", "pcreate"}

\* invocations of init and toggleTalk that are between two of their steps
RunsInFlight == {t \in TaskIds : tasks[t].kind \in {"init", "talk"} /\ tasks[t].pc \in InFlightPcs}

\* provider calls (chat, synthesis, transcription) awaiting their response
ProviderCallsInFlight == {t \in TaskIds : tasks[t].pc \in {"stt", "chat", "tts"}}

\* follow-up cycles whose try block completed, and those where it threw
OkCycles == {t \in PressTasks : tasks[t].kind = "talk" /\ tasks[t].res = "ok"}
FailedCycles == {t \in PressTasks : tasks[t].kind = "talk" /\ tasks[t].res = "fail"}

Roles(ms) == [i \in 1..Len(ms) |-> ms[i].role]

\* system, seed-user, seed-assistant, then user and assistant per cycle
ExpectedRoles(n) ==
    [i \in 1..(3 + 2 * n) |-> IF i = 1 THEN "system" ELSE IF i % 2 = 0 THEN "user" ELSE "assistant"]

\* C1: whichever step of the seed turn fails, once init has returned the
\* transcript is exactly the system turn and the error state is set.
C1_FailedSeedLeavesSystemTurnOnly ==
    [][(InitFinishes /\ tasks'[InitTask].res = "fail")
         => (messages' = <<SystemTurn>> /\ error' # NoError)]_vars

\* C2: when the chat call of init fails or its reply is neither direct JSON
\* nor a fenced block with text fields name and description, then once init
\* has returned the transcript is exactly the system turn, the title is
\* empty, the error is set, and init returns from the chat call itself (it
\* never awaited synthesis or playback).
C2_UnusableReplyAbortsSeed ==
    [][(InitFinishes /\ seedReply' \in {"failed", "other"})
         => /\ messages' = <<SystemTurn>>
            /\ title' = ""
            /\ error' # NoError
            /\ tasks[InitTask].pc = "chat"]_vars

C2_Witness ==
    /\ tasks[InitTask].pc = "done"
    /\ seedReply = "other"
    /\ error = "Failed to parse location JSON"
    /\ messages = <<SystemTurn>>

\* C3: after a successful seed turn and N successful voice cycles with no
\* failed cycle, the transcript has 1 + 2 + 2N turns: system, seed-user,
\* seed-assistant, then user and assistant per cycle.
C3_TranscriptGrowth ==
    (/\ screen = "mounted"
     /\ RunsInFlight = {}
     /\ tasks[InitTask].res = "ok"
     /\ FailedCycles = {})
    => Roles(messages) = ExpectedRoles(Cardinality(OkCycles))

\* the try block of the follow-up turn of task t throws in this step
FollowUpFails(t) ==
    /\ tasks[t].kind = "talk"
    /\ tasks[t].pc \in {"info", "stt", "chat", "tts", "pcreate"}
    /\ tasks'[t].pc = "del"
    /\ tasks'[t].res = "fail"

\* C4: when a step of a follow-up turn fails, the transcript stays as it is
\* (the appends made so far stay, nothing is appended) and the error state
\* is left unchanged.
C4_FollowUpFailureKeepsAppends ==
    [][\A t \in PressTasks :
         FollowUpFails(t) => (messages' = messages /\ error' = error)]_vars

C4_Witness ==
    \E t \in PressTasks :
        /\ tasks[t].res = "fail"
        /\ tasks[t].pc = "done"
        /\ Len(messages) = 4
        /\ messages[4].role = "user"
        /\ error = NoError

\* C5 as stated: after a follow-up cycle in which stopRecording returned a
\* path, the recording file no longer exists, whichever step failed.
C5_RecordingFileGone ==
    \A t \in PressTasks :
        (tasks[t].kind = "talk" /\ tasks[t].pc = "done" /\ tasks[t].uri # null)
            => tasks[t].uri \notin files

\* C5 amended: after such a cycle deleteAsync was called on the path, and
\* the recording file no longer exists unless that call itself failed.
C5_RecordingFileGoneUnlessDeleteFails ==
    \A t \in PressTasks :
        (tasks[t].kind = "talk" /\ tasks[t].pc = "done" /\ tasks[t].uri # null)
            => /\ tasks[t].del \in {"ok", "failed"}
               /\ tasks[t].uri \notin files \/ tasks[t].del = "failed"

C5_Witness ==
    \E t \in PressTasks :
        /\ tasks[t].pc = "done"
        /\ tasks[t].uri # null
        /\ tasks[t].res = "fail"
        /\ tasks[t].del = "ok"
        /\ tasks[t].uri \notin files

\* C6: at most one sound is created and not unloaded at any time.
C6_AtMostOneSound == Cardinality(sounds) <= 1

\* C7: while a step of the seed turn or of a follow-up turn is in flight, a
\* press on Talk/Stop or on Go back is rejected.
C7_PressRejectedWhileInFlight ==
    [][(RunsInFlight # {} /\ presses' = presses + 1)
         => tasks'[presses'].res = "rejected"]_vars

\* C8: no two provider calls are in flight at once and no run of init or
\* toggleTalk starts while an earlier one has not finished.
C8_NoOverlappingTurns ==
    /\ Cardinality(ProviderCallsInFlight) <= 1
    /\ Cardinality(RunsInFlight) <= 1

\* C9: at most one recording is started and not yet stopped and unloaded,
\* and the uri a stop returns is the uri of the recording it stopped.
C9_AtMostOneRecording ==
    /\ Cardinality(recs) <= 1
    /\ \A t \in PressTasks : tasks[t].pc = "info" => tasks[t].uri = tasks[t].rec

\* C10: goBack never calls router.back() while a recording is started and
\* not yet stopped.
C10_NoBackWhileRecording ==
    [][(screen = "mounted" /\ screen' = "leaving") => recs = {}]_vars

\* C11: once the screen was removed (the cleanup of the effect ran), no
\* sound is created and no recording is started any more: what requests
\* still outstanding at that moment return is discarded.
C11_NothingStartsAfterTeardown ==
    [][screen = "unmounted" => (sounds' \subseteq sounds /\ recs' \subseteq recs)]_vars

\* a number as C12 words it: an optional minus, 1 to 3 digits, an optional
\* fraction (a dot and at least one digit)
IsSignedDecimal(s) ==
    \E m \in 0..1, i \in 1..3, f \in 0..Len(s) :
        /\ Len(s) = m + i + (IF f = 0 THEN 0 ELSE f + 1)
        /\ m = 1 => s[1] = "-"
        /\ \A k \in (m + 1)..(m + i) : s[k] \in Digits
        /\ f > 0 => /\ s[m + i + 1] = "."
                    /\ \A k \in (m + i + 2)..Len(s) : s[k] \in Digits

\* the magnitude of the signed decimal s is at most bound
MagnitudeAtMost(s, bound) ==
    LET unsigned == IF s[1] = "-" THEN Tail(s) ELSE s
        n == Cardinality({i \in 1..Len(unsigned) : \A k \in 1..i : unsigned[k] \in Digits})
        whole == DigitsValue(SubSeq(unsigned, 1, n))
    IN  \/ whole < bound
        \/ whole = bound /\ \A k \in (n + 2)..Len(unsigned) : unsigned[k] = "0"

\* the trimmed text is two such numbers around one comma, blanks allowed
\* around the comma, latitude in [-90,90] and longitude in [-180,180]
ValidCoordinateText(text) ==
    LET t == TrimBlanks(text)
    IN  \E c \in 1..Len(t) :
            LET lat == TrimBlanks(SubSeq(t, 1, c - 1))
                lon == TrimBlanks(SubSeq(t, c + 1, Len(t)))
            IN  /\ t[c] = ","
                /\ IsSignedDecimal(lat) /\ MagnitudeAtMost(lat, 90)
                /\ IsSignedDecimal(lon) /\ MagnitudeAtMost(lon, 180)

\* C12: each of the two parseCoordinates returns a value exactly when the
\* text is a valid coordinate pair, and null otherwise.
C12_ParseCoordinatesIffValid ==
    /\ homeParsed # <<>> => (~homeParsed[1].isNull <=> ValidCoordinateText(inputValue))
    /\ appParsed # <<>> => (~appParsed[1].isNull <=> ValidCoordinateText(inputValue))

\* C13 as stated: a call of chatCompletion, ttsToMp3 or transcribeAudio made
\* without the key it needs ends with the missing-key error and has issued
\* no network request.
C13_MissingCredentialFailsFirst ==
    (clientPc = "done" /\ ~KeyConfigured(clientCall))
        => /\ clientResult = Threw(MissingKeyError(clientCall))
           /\ clientRequests = 0

\* C13 amended: such a call throws and has issued no network request; the
\* error is the missing-key error, except that transcribeAudio looks at the
\* audio file first and throws the error of that check when it fails.
C13_MissingCredentialNoRequest ==
    (clientPc = "done" /\ ~KeyConfigured(clientCall))
        => /\ clientResult.threw
           /\ clientRequests = 0
           /\ \/ clientResult = Threw(MissingKeyError(clientCall))
              \/ /\ clientCall.op = "transcribeAudio"
                 /\ clientResult.error \in {"Audio file does not exist", "getInfoAsync failed"}

C13_Witness ==
    /\ clientPc = "done"
    /\ clientCall.op = "transcribeAudio"
    /\ clientCall.fileExists
    /\ ~clientCall.openaiKey
    /\ clientResult = Threw("Missing OPENAI_API_KEY")
    /\ clientRequests = 0

\* startRecording of task t finishes in this step without having started a
\* capture (the permission was denied, or setAudioModeAsync,
\* prepareToRecordAsync or startAsync threw), the screen still being there
StartFails(t) ==
    /\ screen # "unmounted"
    /\ tasks[t].pc = "start"
    /\ tasks'[t].pc = "done"
    /\ t \notin recs'

\* C14: when startRecording finishes after such a failure, isTalking is
\* false, no recording is held in recordingRef and no capture is running.
C14_FailedStartLeavesNotRecording ==
    [][\A t \in PressTasks :
         StartFails(t) => (~isTalking' /\ recordingRef' = null /\ recs' = {})]_vars

\* the object of a usable reply, and the positions of playMp3
SeedObject == JsonParse(<<"{name,description}">>)
PlayPcs == {"pstop", "punload", "pcreate"}

\* C15: when the chat reply of init parses, the title becomes the name, the
\* transcript becomes system, the user turn with the coordinates, and an
\* assistant turn holding the description only, and ttsToMp3 is called with
\* the description; ttsToMp3 is called at no other moment; playMp3 is called
\* only once ttsToMp3 has returned, with the path it returned.
C15_SuccessfulSeedOrder ==
    [][/\ (tasks[InitTask].pc = "chat" /\ seedReply' = "usable")
            => /\ title' = SeedObject.name.val
               /\ messages' = <<SystemTurn, UserMsg,
                                [role |-> "assistant", content |-> <<SeedObject.description.val>>]>>
               /\ tasks'[InitTask].pc = "tts"
               /\ tasks'[InitTask].arg = <<SeedObject.description.val>>
       /\ (tasks[InitTask].pc # "tts" /\ tasks'[InitTask].pc = "tts")
            => (tasks[InitTask].pc = "chat" /\ seedReply' = "usable")
       /\ (tasks[InitTask].pc \notin PlayPcs /\ tasks'[InitTask].pc \in PlayPcs)
            => (tasks[InitTask].pc = "tts" /\ tasks'[InitTask].arg = Mp3Path(InitTask))
       /\ (tasks[InitTask].pc \in PlayPcs /\ tasks'[InitTask].pc \in PlayPcs)
            => tasks'[InitTask].arg = tasks[InitTask].arg]_vars

C15_Witness ==
    /\ tasks[InitTask].res = "ok"
    /\ seedReply = "usable"
    /\ title = SeedObject.name.val
    /\ Len(messages) = 3
    /\ soundRef = InitTask
    /\ sounds = {InitTask}

IsPrefix(s, t) == Len(s) <= Len(t) /\ SubSeq(t, 1, Len(s)) = s

\* task t makes its follow-up chat call in this step
FollowUpChatStarts(t) ==
    tasks[t].kind = "talk" /\ tasks[t].pc = "stt" /\ tasks'[t].pc = "chat"

\* C16: the transcript starts with the system turn and holds no other
\* system turn, every step keeps the previous transcript as a prefix of the
\* new one, and every follow-up chat call is made with the whole transcript,
\* the newly transcribed user turn last.
C16_TranscriptAppendOnly ==
    [][/\ messages'[1] = SystemTurn
       /\ \A i \in 2..Len(messages') : messages'[i].role # "system"
       /\ IsPrefix(messages, messages')
       /\ \A t \in PressTasks :
            (FollowUpChatStarts(t) /\ screen # "unmounted")
                => /\ tasks'[t].msgs = messages'
                   /\ messages'[Len(messages')].role = "user"
                   /\ IsPrefix(messages, tasks'[t].msgs)]_vars

\* the order of the awaits of init and toggleTalk
PcRank(pc) ==
    CASE pc = "idle" -> 0
      [] pc = "start" -> 1
      [] pc = "stop" -> 1
      [] pc = "info" -> 2
      [] pc = "stt" -> 3
      [] pc = "chat" -> 4
      [] pc = "tts" -> 5
      [] pc = "pstop" -> 6
      [] pc = "punload" -> 7
      [] pc = "pcreate" -> 8
      [] pc = "del" -> 9
      [] pc = "done" -> 10

\* C17: every call returning or failing at some time, loading becomes false
\* after init started and chatLoading becomes false after it was set (as
\* long as the screen is there to hold it), whichever step fails: at every
\* moment a later moment comes at which the flag is false.  And an
\* invocation only moves forward through its awaits, so it makes each
\* provider call at most once.
C17_RunsReturnToIdle ==
    /\ []<>(~loading)
    /\ []<>(~chatLoading \/ screen = "unmounted")
    /\ [][\A t \in TaskIds :
            tasks'[t].pc # tasks[t].pc => PcRank(tasks'[t].pc) > PcRank(tasks[t].pc)]_vars

C17_Witness ==
    /\ screen = "mounted"
    /\ ~loading
    /\ ~chatLoading
    /\ \E t \in PressTasks : tasks[t].pc = "done" /\ tasks[t].res = "fail" /\ tasks[t].uri # null

\* user and assistant turns alternate after the system turn
Alternates(ms) ==
    \A i \in 2..Len(ms) : ms[i].role = IF i % 2 = 0 THEN "user" ELSE "assistant"

\* C18: whenever toggleTalk appends a transcribed user turn, the transcript
\* it extends already holds the system, seed-user and seed-assistant turns
\* and ends with an assistant turn, so that in every reachable state user
\* and assistant turns strictly alternate after the system turn.
C18_FollowUpExtendsSeededTranscript ==
    [][/\ \A t \in PressTasks :
            (FollowUpChatStarts(t) /\ screen # "unmounted")
                => /\ Len(messages) >= 3
                   /\ messages[Len(messages)].role = "assistant"
       /\ Alternates(messages')]_vars

====
